---- MODULE Spec2Model ----
(***************************************************************************)
(* Risk sizing and trade gating of src/app.py: the session ledger          *)
(* (st.session_state.trades), the daily counters (st.session_state.stats), *)
(* calculate_unutilized_capital, calculate_position_sizing and             *)
(* execute_trade_action.                                                   *)
(*                                                                         *)
(* Python floats are modelled as exact rationals <<n, d>> (d > 0, lowest   *)
(* terms); every input of the model is chosen so that the quantities the   *)
(* code computes are exactly the rationals computed here.                  *)
(***************************************************************************)
EXTENDS Integers, Sequences, FiniteSets, TLC

VARIABLES trades, stats, clock, quote, last

vars == <<trades, stats, clock, quote, last>>

(***************************************************************************)
(* Program constants (src/app.py:21-26) and the gate's tolerance 1e-9.     *)
(***************************************************************************)
DAILY_MAX_TRADES == 4
DAILY_MAX_PER_SYMBOL == 2
RISK_PERCENT == 1
DEFAULT_SL_POINTS_BUFFER == 20
DEFAULT_SL_PERCENT_BUFFER == <<1, 5>>
EpsilonDen == 1000000000
DEFAULT_BALANCE == 10000

(***************************************************************************)
(* Bounds of the model: the ledger grows to MaxTrades trades, and the      *)
(* model follows a change of date while the ledger holds at most           *)
(* MaxCarried trades, or once the date has its DAILY_MAX_TRADES trades     *)
(* (then up to the first trade of the next date).  The session spans two   *)
(* UTC dates.                                                              *)
(***************************************************************************)
MaxTrades == 5
MaxCarried == 2

Dates == {0, 1}

(***************************************************************************)
(* Exact rational arithmetic.                                              *)
(***************************************************************************)
Abs(n) == IF n < 0 THEN -n ELSE n

RECURSIVE GCD(_, _)
GCD(a, b) == IF b = 0 THEN a ELSE GCD(b, a % b)

Rat(n, d) ==
    LET g == GCD(Abs(n), Abs(d))
        s == IF d < 0 THEN -1 ELSE 1
    IN  <<(s * n) \div g, (s * d) \div g>>

Whole(n) == <<n, 1>>

Zero == <<0, 1>>
One == <<1, 1>>

LCM(a, b) == (a \div GCD(a, b)) * b

Add(x, y) ==
    LET l == LCM(x[2], y[2])
    IN  Rat(x[1] * (l \div x[2]) + y[1] * (l \div y[2]), l)

Neg(x) == <<-x[1], x[2]>>

Sub(x, y) == Add(x, Neg(y))

Mul(x, y) ==
    LET a == Rat(x[1], y[2])
        b == Rat(y[1], x[2])
    IN  <<a[1] * b[1], a[2] * b[2]>>

\* x / y for y # 0 (the callers guard the zero divisor, as Python raises there)
Div(x, y) == Mul(x, Rat(y[2], y[1]))

IsZero(x) == x[1] = 0
Pos(x) == x[1] > 0
Less(x, y) == Sub(x, y)[1] < 0
Leq(x, y) == Sub(x, y)[1] <= 0

\* x > y + 1e-9
ExceedsByEpsilon(x, y) ==
    LET e == Sub(x, y)
    IN  /\ e[1] > 0
        /\ \/ e[1] >= 3
           \/ e[1] * EpsilonDen > e[2]

\* math.ceil
Ceil(x) == IF x[1] >= 0 THEN (x[1] + x[2] - 1) \div x[2] ELSE -((-x[1]) \div x[2])

RatMax(x, y) == IF Less(x, y) THEN y ELSE x

(***************************************************************************)
(* Inputs.  The symbol, entry price, stop mode and stop value of one       *)
(* proposal, as the order form hands them to calculate_position_sizing     *)
(* and execute_trade_action; the balances typed into the balance field.    *)
(***************************************************************************)
Symbols == {"BTCUSDT", "ETHUSDT", "SOLUSDT"}

Balances == {Whole(DEFAULT_BALANCE)}

Proposals ==
    { [symbol |-> "BTCUSDT", entry |-> Whole(1000),  sl_type |-> "SL Points", sl_value |-> Whole(5)],
      [symbol |-> "ETHUSDT", entry |-> Whole(1000),  sl_type |-> "SL Points", sl_value |-> Whole(5)],
      [symbol |-> "SOLUSDT", entry |-> Whole(10000), sl_type |-> "SL Points", sl_value |-> Whole(5)] }

BrokerStatus == {"REAL TRADE", "SIMULATION", "BROKER ERROR"}

(***************************************************************************)
(* st.session_state.stats: a dict date -> {"total", "by_symbol"}, read     *)
(* with .get(key, default).                                                *)
(***************************************************************************)
EmptyMap == [x \in {} |-> 0]

NoStats == [total |-> 0, by_symbol |-> EmptyMap]

StatsGet(today) == IF today \in DOMAIN stats THEN stats[today] ELSE NoStats

SymGet(by_symbol, symbol) == IF symbol \in DOMAIN by_symbol THEN by_symbol[symbol] ELSE 0

(***************************************************************************)
(* initialize_session_state: today's counters are created when missing.    *)
(***************************************************************************)
\* an initialisation that starts today's counters afresh on every run
ResetTodayCounters(today) ==
    [d \in DOMAIN stats \cup {today} |-> IF d = today THEN NoStats ELSE stats[d]]

initialize_session_state(today) ==
    IF today \in DOMAIN stats
    THEN stats
    ELSE [d \in DOMAIN stats \cup {today} |-> IF d = today THEN NoStats ELSE stats[d]]

(***************************************************************************)
(* calculate_unutilized_capital.  The division notional / leverage raises  *)
(* ZeroDivisionError for a trade of today whose leverage is 0.             *)
(***************************************************************************)
\* the trades of every date
trades_of_any_date(today) == trades

today_trades(today) == SelectSeq(trades, LAMBDA t : t.date = today)

\* one term of the sum of line 44: t["notional"] / t["leverage"]
trade_capital(t) == Div(t.notional, t.leverage)

RECURSIVE used_capital(_)
used_capital(ts) ==
    IF ts = <<>> THEN Zero
    ELSE Add(trade_capital(Head(ts)), used_capital(Tail(ts)))

DivisionRaises(today) ==
    \E i \in 1 .. Len(trades) : trades[i].date = today /\ IsZero(trades[i].leverage)

calculate_unutilized_capital(balance, today) ==
    IF DivisionRaises(today)
    THEN [raised |-> TRUE, value |-> Zero]
    ELSE [raised |-> FALSE,
          value |-> RatMax(Zero, Sub(balance, used_capital(today_trades(today))))]

(***************************************************************************)
(* calculate_position_sizing.  The clock is read again inside              *)
(* calculate_unutilized_capital, so the date is a parameter.  info is the  *)
(* kind of the info text returned as the sixth component.                  *)
(***************************************************************************)
risk_amount(unutilized_capital) == Div(Mul(unutilized_capital, Whole(RISK_PERCENT)), Whole(100))

\* line 99
InvalidInput(unutilized_capital, entry, sl_value) ==
    \/ ~Pos(unutilized_capital)
    \/ ~Pos(entry)
    \/ ~Pos(sl_value)

\* line 100: return 0, 0, 0, 0, 0, "INPUT ERROR ..."
InputErrorResult ==
    [raised |-> FALSE, units |-> Zero, leverage |-> Zero, notional |-> Zero,
     unutilized_capital |-> Zero, max_leverage |-> Zero, info |-> "INPUT ERROR"]

RaisedResult ==
    [raised |-> TRUE, units |-> Zero, leverage |-> Zero, notional |-> Zero,
     unutilized_capital |-> Zero, max_leverage |-> Zero, info |-> "ZeroDivisionError"]

\* a leverage that is rounded up to a half but not raised to 1
PointsLeverageUnfloored(notional, unutilized_capital) ==
    Rat(Ceil(Mul(Div(notional, unutilized_capital), Whole(2))), 2)

\* lines 109-112
PointsLeverage(notional, unutilized_capital) ==
    LET leverage == Div(notional, unutilized_capital)
        floored == IF Less(leverage, One) THEN One ELSE leverage
    IN  Rat(Ceil(Mul(floored, Whole(2))), 2)

\* lines 102-113
SizePoints(unutilized_capital, entry, sl_value) ==
    LET distance == sl_value
        effective_sl_distance == Add(distance, Whole(DEFAULT_SL_POINTS_BUFFER))
    IN  IF Pos(effective_sl_distance)
        THEN LET units == Div(risk_amount(unutilized_capital), effective_sl_distance)
                 sl_percent_movement == Mul(Div(distance, entry), Whole(100))
                 notional == Mul(units, entry)
             IN  [raised |-> FALSE, units |-> units,
                  leverage |-> PointsLeverage(notional, unutilized_capital),
                  notional |-> notional, unutilized_capital |-> unutilized_capital,
                  max_leverage |-> IF Pos(sl_percent_movement)
                                   THEN Div(Whole(100), sl_percent_movement) ELSE Zero,
                  info |-> "RISK"]
        ELSE [raised |-> FALSE, units |-> Zero, leverage |-> One, notional |-> Zero,
              unutilized_capital |-> unutilized_capital, max_leverage |-> Zero,
              info |-> "RISK"]

\* line 122: leverage = max_leverage
PercentLeverage(max_leverage) == max_leverage

\* lines 114-123
SizePercent(unutilized_capital, entry, sl_value) ==
    LET sl_value_percent == sl_value
        sl_percent_decimal == Div(sl_value_percent, Whole(100))
        effective_sl_percent_decimal ==
            Add(sl_percent_decimal, Div(DEFAULT_SL_PERCENT_BUFFER, Whole(100)))
    IN  IF Pos(effective_sl_percent_decimal)
        THEN LET units == Div(risk_amount(unutilized_capital),
                              Mul(effective_sl_percent_decimal, entry))
                 max_leverage == Div(Whole(100), sl_value_percent)
             IN  [raised |-> FALSE, units |-> units,
                  leverage |-> PercentLeverage(max_leverage),
                  notional |-> Mul(units, entry),
                  unutilized_capital |-> unutilized_capital,
                  max_leverage |-> max_leverage, info |-> "RISK"]
        ELSE [raised |-> FALSE, units |-> Zero, leverage |-> One, notional |-> Zero,
              unutilized_capital |-> unutilized_capital, max_leverage |-> Zero,
              info |-> "RISK"]

\* lines 91-123, given the outcome cap of line 90
SizeFrom(cap, entry, sl_type, sl_value) ==
    IF cap.raised THEN RaisedResult
    ELSE IF InvalidInput(cap.value, entry, sl_value) THEN InputErrorResult
    ELSE IF sl_type = "SL Points" THEN SizePoints(cap.value, entry, sl_value)
    ELSE SizePercent(cap.value, entry, sl_value)

calculate_position_sizing(balance, entry, sl_type, sl_value, today) ==
    SizeFrom(calculate_unutilized_capital(balance, today), entry, sl_type, sl_value)

(***************************************************************************)
(* execute_trade_action: the gate (lines 581-610).                         *)
(***************************************************************************)
\* a daily limit that lets one trade too many through
DailyLimitOffByOne(total) == total > DAILY_MAX_TRADES

\* line 586
DailyLimitReached(total) == total >= DAILY_MAX_TRADES

\* a symbol limit that lets one trade too many through
SymbolLimitOffByOne(sym_count) == sym_count > DAILY_MAX_PER_SYMBOL

\* line 589
SymbolLimitReached(sym_count) == sym_count >= DAILY_MAX_PER_SYMBOL

\* lines 593, 594: an override of 0 means "use the suggested value"
ValueToUse(user_value, suggested_value) ==
    IF Pos(user_value) THEN user_value ELSE suggested_value

\* line 599
UnitsExceedSuggested(units_to_use, suggested_units_check) ==
    ExceedsByEpsilon(units_to_use, suggested_units_check)

\* a gate without the leverage check
LeverageNeverExceeds(lev_to_use, suggested_lev_check) == FALSE

\* line 602
LeverageExceedsSuggested(lev_to_use, suggested_lev_check) ==
    ExceedsByEpsilon(lev_to_use, suggested_lev_check)

\* line 607
margin_required(notional_to_use, lev_to_use) ==
    IF Pos(lev_to_use) THEN Div(notional_to_use, lev_to_use) ELSE notional_to_use

\* line 608
MarginExceedsCapital(margin, unutilized_capital) ==
    ExceedsByEpsilon(margin, unutilized_capital)

Rejections ==
    {"DAILY_LIMIT", "SYMBOL_LIMIT", "OVERRIDE_UNITS", "OVERRIDE_LEVERAGE", "INSUFFICIENT_CAPITAL"}

\* the locals of a call that returned before line 593
NoGate ==
    [result |-> "", units |-> Zero, leverage |-> Zero, notional |-> Zero, margin |-> Zero,
     sizing |-> "", suggested_units_check |-> Zero, suggested_lev_check |-> Zero,
     unutilized_capital |-> Zero]

(***************************************************************************)
(* The outcome of one call, given the values of its locals: the checks of  *)
(* lines 586-610 in their order.                                           *)
(***************************************************************************)
GateOutcome(total, sym_count, units_to_use, lev_to_use, notional_to_use, margin, check) ==
    LET result ==
            IF DailyLimitReached(total) THEN "DAILY_LIMIT"
            ELSE IF SymbolLimitReached(sym_count) THEN "SYMBOL_LIMIT"
            ELSE IF check.raised THEN "ZeroDivisionError"
            ELSE IF UnitsExceedSuggested(units_to_use, check.units) THEN "OVERRIDE_UNITS"
            ELSE IF LeverageExceedsSuggested(lev_to_use, check.leverage) THEN "OVERRIDE_LEVERAGE"
            ELSE IF MarginExceedsCapital(margin, check.unutilized_capital)
                 THEN "INSUFFICIENT_CAPITAL"
            ELSE "LOGGED"
    IN  IF result \in {"DAILY_LIMIT", "SYMBOL_LIMIT"}
        THEN [NoGate EXCEPT !.result = result]
        ELSE [result |-> result, units |-> units_to_use, leverage |-> lev_to_use,
              notional |-> notional_to_use, margin |-> margin, sizing |-> check.info,
              suggested_units_check |-> check.units, suggested_lev_check |-> check.leverage,
              unutilized_capital |-> check.unutilized_capital]

\* today is the date read at line 581, today2 the date read inside
\* calculate_position_sizing at line 596 (midnight may pass in between)
Gate(q, user_units, user_lev, today, today2) ==
    LET st == StatsGet(today)
        units_to_use == ValueToUse(user_units, q.units)
        lev_to_use == ValueToUse(user_lev, q.leverage)
        notional_to_use == Mul(units_to_use, q.entry)
    IN  GateOutcome(st.total, SymGet(st.by_symbol, q.symbol), units_to_use, lev_to_use,
                    notional_to_use, margin_required(notional_to_use, lev_to_use),
                    calculate_position_sizing(q.balance, q.entry, q.sl_type, q.sl_value,
                                              today2))

(***************************************************************************)
(* execute_trade_action: the recorder (lines 618-637).                     *)
(***************************************************************************)
NewTrade(q, g, today) ==
    [date |-> today, symbol |-> q.symbol, entry |-> q.entry, units |-> g.units,
     notional |-> g.notional, leverage |-> g.leverage]

\* line 633
TradesAfter(q, g, today) ==
    IF g.result = "LOGGED" THEN Append(trades, NewTrade(q, g, today)) ELSE trades

\* counters that raise the date's total and leave the symbol's counter alone
IncrementTotalOnly(today, symbol) ==
    LET s == StatsGet(today)
        n == [total |-> s.total + 1, by_symbol |-> s.by_symbol]
    IN  [d \in DOMAIN stats \cup {today} |-> IF d = today THEN n ELSE stats[d]]

\* lines 635-637
Increment(today, symbol) ==
    LET s == StatsGet(today)
        by == [x \in DOMAIN s.by_symbol \cup {symbol} |->
                  IF x = symbol THEN SymGet(s.by_symbol, symbol) + 1 ELSE s.by_symbol[x]]
        n == [total |-> s.total + 1, by_symbol |-> by]
    IN  [d \in DOMAIN stats \cup {today} |-> IF d = today THEN n ELSE stats[d]]

\* counters raised as soon as the limits are passed, before the override checks
StatsAfterLimits(q, g, today) ==
    IF g.result \in {"DAILY_LIMIT", "SYMBOL_LIMIT", "ZeroDivisionError"}
    THEN stats ELSE Increment(today, q.symbol)

StatsAfter(q, g, today) ==
    IF g.result = "LOGGED" THEN Increment(today, q.symbol) ELSE stats

(***************************************************************************)
(* The state machine.  One script run renders the form (app, lines 333 and *)
(* 467), and a click on Buy/Sell in that run calls execute_trade_action    *)
(* with the rendered suggestion (lines 498-502).                           *)
(***************************************************************************)
NoQuote ==
    [valid |-> FALSE, balance |-> Zero, symbol |-> "", entry |-> Zero, sl_type |-> "",
     sl_value |-> Zero, units |-> Zero, leverage |-> Zero]

\* what the last operation reported: the operation, the date it read first,
\* the locals of the call (g) and the broker's status
NoCall == [op |-> "start", date |-> 0, g |-> NoGate, broker |-> ""]

\* the number of ledger trades dated d
TradesOn(d) == Cardinality({i \in 1 .. Len(trades) : trades[i].date = d})

\* the ledger is short enough for the model to follow it into the next date
Carried == Len(trades) <= MaxCarried

Init ==
    /\ trades = <<>>
    /\ stats = EmptyMap
    /\ clock = 0
    /\ quote = NoQuote
    /\ last = NoCall

\* the UTC date advances
Tick ==
    /\ clock + 1 \in Dates
    /\ Carried \/ TradesOn(clock) = DAILY_MAX_TRADES
    /\ clock' = clock + 1
    /\ UNCHANGED <<trades, stats, quote, last>>

\* a script run up to line 467
Render ==
    \E balance \in Balances, p \in Proposals :
      \E sizing \in {calculate_position_sizing(balance, p.entry, p.sl_type, p.sl_value, clock)} :
        LET q == [valid |-> ~sizing.raised, balance |-> balance, symbol |-> p.symbol,
                  entry |-> p.entry, sl_type |-> p.sl_type, sl_value |-> p.sl_value,
                  units |-> sizing.units, leverage |-> sizing.leverage]
        IN  /\ stats' = initialize_session_state(clock)
            /\ quote' = IF sizing.raised THEN NoQuote ELSE q
            /\ last' = [op |-> "render", date |-> clock, broker |-> "",
                        g |-> [NoGate EXCEPT !.sizing = sizing.info,
                                             !.suggested_units_check = sizing.units,
                                             !.suggested_lev_check = sizing.leverage,
                                             !.unutilized_capital = sizing.unutilized_capital]]
            /\ UNCHANGED <<trades, clock>>

\* the override fields of the form (lines 486, 487): 0 keeps the suggestion;
\* otherwise the user types a multiple of the suggestion shown, or 1 when the
\* suggestion shown is 0
Multiples(suggested, factors) ==
    IF Pos(suggested)
    THEN {Zero} \cup {Mul(suggested, f) : f \in factors}
    ELSE {Zero, One}

UnitFactors == {<<11, 10>>}

LeverageFactors == {<<1, 2>>, <<2, 1>>}

\* a click on Buy/Sell: execute_trade_action
Execute ==
    /\ quote.valid
    /\ Len(trades) < MaxTrades
    /\ clock > 0 => (Carried \/ TradesOn(clock) = 0)
    /\ \E user_units \in Multiples(quote.units, UnitFactors),
          user_lev \in Multiples(quote.leverage, LeverageFactors),
          today2 \in {clock} \cup {d \in {clock + 1} \cap Dates : Carried} :
          LET today == clock
          IN  \E g \in {Gate(quote, user_units, user_lev, today, today2)} :
               \E broker \in IF g.result = "LOGGED" THEN BrokerStatus ELSE {""} :
                 /\ trades' = TradesAfter(quote, g, today)
                 /\ stats' = StatsAfter(quote, g, today)
                 /\ clock' = today2
                 /\ quote' = NoQuote
                 /\ last' = [op |-> "execute", date |-> today, g |-> g, broker |-> broker]

Next == Tick \/ Render \/ Execute

Spec == Init /\ [][Next]_vars

(***************************************************************************)
(* Definitions shared by the properties.                                   *)
(***************************************************************************)
TradesOnFor(d, symbol) ==
    Cardinality({i \in 1 .. Len(trades) : trades[i].date = d /\ trades[i].symbol = symbol})

\* a step that is one call of execute_trade_action
ExecuteStep == quote.valid /\ ~quote'.valid /\ last'.op = "execute"

LedgerUnchanged == trades' = trades /\ stats' = stats

\* the inputs on which the pure functions are examined in every reachable state
GridBalances == {Whole(DEFAULT_BALANCE), Whole(1000), Whole(1)}
GridEntries == {Whole(-1), Zero, Whole(1000), Whole(3000), Whole(10000)}
GridModes == {"SL Points", "SL % Movement"}
GridStops == {Whole(-1), Zero, <<4, 5>>, Whole(5), Whole(200)}

\* the units to use are 10% above the units the engine suggests in the call
TenPercentAbove(g) ==
    /\ Pos(g.suggested_units_check)
    /\ g.units = Mul(g.suggested_units_check, <<11, 10>>)

C2_DailyLimit ==
    [][ /\ (ExecuteStep /\ TradesOn(clock) >= DAILY_MAX_TRADES) =>
               (last'.g.result = "DAILY_LIMIT" /\ LedgerUnchanged)
        /\ \A d \in Dates : TradesOn(d)' <= DAILY_MAX_TRADES ]_vars

C2_Witness ==
    /\ last.op = "execute"
    /\ last.g.result = "DAILY_LIMIT"
    /\ TradesOn(last.date) = DAILY_MAX_TRADES

(***************************************************************************)
(* C3: while the date's total is below DAILY_MAX_TRADES, a call for a      *)
(* symbol with DAILY_MAX_PER_SYMBOL trades on the current date ends with   *)
(* the symbol-limit error, a call for a symbol with fewer is not stopped   *)
(* by either limit, and no (date, symbol) pair ever has more than          *)
(* DAILY_MAX_PER_SYMBOL trades.                                            *)
(***************************************************************************)
C3_SymbolLimit ==
    [][ /\ (/\ ExecuteStep
            /\ TradesOn(clock) < DAILY_MAX_TRADES
            /\ TradesOnFor(clock, quote.symbol) >= DAILY_MAX_PER_SYMBOL) =>
               (last'.g.result = "SYMBOL_LIMIT" /\ LedgerUnchanged)
        /\ (/\ ExecuteStep
            /\ TradesOn(clock) < DAILY_MAX_TRADES
            /\ TradesOnFor(clock, quote.symbol) < DAILY_MAX_PER_SYMBOL) =>
               last'.g.result \notin {"DAILY_LIMIT", "SYMBOL_LIMIT"}
        /\ \A d \in Dates, s \in Symbols : TradesOnFor(d, s)' <= DAILY_MAX_PER_SYMBOL ]_vars

\* a symbol is refused at its limit after another symbol was admitted past it
C3_Witness ==
    /\ last.op = "execute"
    /\ last.g.result = "SYMBOL_LIMIT"
    /\ Len(trades) >= 3
    /\ LET n == Len(trades)
       IN  /\ trades[n].date = last.date
           /\ trades[n].symbol # trades[n - 1].symbol
           /\ TradesOnFor(last.date, trades[n - 1].symbol) = DAILY_MAX_PER_SYMBOL
           /\ TradesOn(last.date) < DAILY_MAX_TRADES

(***************************************************************************)
(* C4: every trade that is recorded has units and leverage at most 1e-9    *)
(* above what calculate_position_sizing gives for the call's balance,      *)
(* entry and stop on the ledger as it is when the call computes it.        *)
(***************************************************************************)
C4_NeverAboveSuggestion ==
    [][ (ExecuteStep /\ trades' # trades) =>
            LET t == trades'[Len(trades')]
                fresh == calculate_position_sizing(quote.balance, quote.entry, quote.sl_type,
                                                   quote.sl_value, clock')
            IN  /\ ~fresh.raised
                /\ ~ExceedsByEpsilon(t.units, fresh.units)
                /\ ~ExceedsByEpsilon(t.leverage, fresh.leverage) ]_vars

\* a trade recorded from a suggestion older than the one the call computed
C4_Witness ==
    /\ last.op = "execute"
    /\ last.g.result = "LOGGED"
    /\ Pos(last.g.units)
    /\ Less(last.g.units, last.g.suggested_units_check)

(***************************************************************************)
(* C5: in every reachable state calculate_unutilized_capital returns,      *)
(* for every positive balance, a value >= 0 and does not fail.             *)
(***************************************************************************)
C5_CapitalNeverFails ==
    \A b \in GridBalances :
        LET cap == calculate_unutilized_capital(b, clock)
        IN  ~cap.raised /\ Leq(Zero, cap.value)

(***************************************************************************)
(* C6: every trade in the ledger has units > 0 and leverage >= 1.          *)
(***************************************************************************)
C6_TradesWellFormed ==
    \A i \in 1 .. Len(trades) : Pos(trades[i].units) /\ Leq(One, trades[i].leverage)

(***************************************************************************)
(* C7: a call in which the sizing engine reports INVALID_INPUT records no  *)
(* trade and raises no counter.                                            *)
(***************************************************************************)
C7_InvalidInputBlocks ==
    [][ (ExecuteStep /\ last'.g.sizing = "INPUT ERROR") => LedgerUnchanged ]_vars

(***************************************************************************)
(* C8: for unutilized capital <= 0, entry <= 0 or stop value <= 0,         *)
(* calculate_position_sizing returns units 0, leverage 1, notional 0 and   *)
(* max_leverage 0.                                                         *)
(***************************************************************************)
C8_InvalidInputResult ==
    \A b \in GridBalances, e \in GridEntries, m \in GridModes, v \in GridStops :
        LET cap == calculate_unutilized_capital(b, clock)
            r == calculate_position_sizing(b, e, m, v, clock)
        IN  (~cap.raised /\ InvalidInput(cap.value, e, v)) =>
                /\ r.info = "INPUT ERROR"
                /\ r.units = Zero
                /\ r.leverage = One
                /\ r.notional = Zero
                /\ r.max_leverage = Zero

(***************************************************************************)
(* C9: unutilized capital is max(0, balance - used), where used is the sum *)
(* over today's trades of notional / max(leverage, 1).                     *)
(***************************************************************************)
RECURSIVE UsedFlooredAtOne(_)
UsedFlooredAtOne(ts) ==
    IF ts = <<>> THEN Zero
    ELSE Add(Div(Head(ts).notional, RatMax(Head(ts).leverage, One)),
             UsedFlooredAtOne(Tail(ts)))

C9_CapitalFormula ==
    \A b \in GridBalances :
        LET cap == calculate_unutilized_capital(b, clock)
        IN  /\ ~cap.raised
            /\ cap.value = RatMax(Zero, Sub(b, UsedFlooredAtOne(today_trades(clock))))

(***************************************************************************)
(* C10: for every valid sizing input the suggested leverage is >= 1, and   *)
(* in percent mode it is max(1, 100 / stop_value).                         *)
(***************************************************************************)
C10_LeverageAtLeastOne ==
    \A b \in GridBalances, e \in GridEntries, m \in GridModes, v \in GridStops :
        LET cap == calculate_unutilized_capital(b, clock)
            r == calculate_position_sizing(b, e, m, v, clock)
        IN  (~cap.raised /\ ~InvalidInput(cap.value, e, v)) =>
                /\ Leq(One, r.leverage)
                /\ m = "SL % Movement" => r.leverage = RatMax(One, Div(Whole(100), v))

(***************************************************************************)
(* C11: a call that passes every check of the gate appends exactly one     *)
(* trade (the call's symbol, entry, units, notional and leverage, dated    *)
(* with the call's date) and raises that date's total and that symbol's    *)
(* counter by exactly one, whichever status place_broker_order returns;    *)
(* an equal trade already in the ledger does not stop the second record.   *)
(***************************************************************************)
C11_BrokerNeverBlocksRecord ==
    [][ (ExecuteStep /\ last'.g.result = "LOGGED") =>
            /\ last'.broker \in BrokerStatus
            /\ Len(trades') = Len(trades) + 1
            /\ SubSeq(trades', 1, Len(trades)) = trades
            /\ trades'[Len(trades')] =
                   [date |-> clock, symbol |-> quote.symbol, entry |-> quote.entry,
                    units |-> last'.g.units, notional |-> last'.g.notional,
                    leverage |-> last'.g.leverage]
            /\ \A d \in Dates, s \in Symbols : (d = clock /\ s = quote.symbol) =>
                   /\ StatsGet(d)'.total = StatsGet(d).total + 1
                   /\ SymGet(StatsGet(d).by_symbol, s)' =
                          SymGet(StatsGet(d).by_symbol, s) + 1 ]_vars

\* the broker failed and the trade, equal to the one before it but for the
\* date, is in the ledger
C11_Witness ==
    /\ last.op = "execute"
    /\ last.g.result = "LOGGED"
    /\ last.broker = "BROKER ERROR"
    /\ Len(trades) >= 2
    /\ LET n == Len(trades)
       IN  /\ [trades[n] EXCEPT !.date = 0] = [trades[n - 1] EXCEPT !.date = 0]
           /\ Pos(trades[n].units)
           /\ StatsGet(last.date).total = TradesOn(last.date)

(***************************************************************************)
(* C12: for every date d the counter stats[d].total is the number of       *)
(* ledger trades dated d, stats[d].by_symbol[s] is the number of them with *)
(* symbol s, and total is the sum of the per-symbol counters; no counter   *)
(* ever decreases and the ledger only grows at its end.                    *)
(***************************************************************************)
RECURSIVE SymbolSum(_, _)
SymbolSum(by_symbol, S) ==
    IF S = {} THEN 0
    ELSE LET s == CHOOSE x \in S : TRUE
         IN  by_symbol[s] + SymbolSum(by_symbol, S \ {s})

CountersMatchLedger ==
    /\ DOMAIN stats \subseteq Dates
    /\ \A d \in Dates :
          /\ StatsGet(d).total = TradesOn(d)
          /\ DOMAIN StatsGet(d).by_symbol \subseteq Symbols
          /\ \A s \in Symbols : SymGet(StatsGet(d).by_symbol, s) = TradesOnFor(d, s)
          /\ StatsGet(d).total = SymbolSum(StatsGet(d).by_symbol, DOMAIN StatsGet(d).by_symbol)

C12_CountersMatchLedger ==
    /\ CountersMatchLedger
    /\ [][ /\ CountersMatchLedger'
           /\ \A d \in Dates :
                 /\ StatsGet(d)'.total >= StatsGet(d).total
                 /\ \A s \in Symbols :
                       SymGet(StatsGet(d).by_symbol, s)' >= SymGet(StatsGet(d).by_symbol, s)
           /\ Len(trades') >= Len(trades)
           /\ SubSeq(trades', 1, Len(trades)) = trades ]_vars

\* counters of two dates and of two symbols of one date are in use
C12_Witness ==
    /\ TradesOn(0) = 2
    /\ TradesOn(1) >= 1
    /\ \E s \in Symbols : TradesOnFor(0, s) = 1
    /\ StatsGet(0).total = 2
    /\ StatsGet(1).total >= 1
    /\ last.op = "render"

(***************************************************************************)
(* C13: in points mode with valid inputs the suggested leverage is         *)
(* max(1, ceil(2 * required) / 2) for required = notional / unutilized     *)
(* capital: a multiple of 0.5, at least 1, at least required, and less     *)
(* than 0.5 above required when required >= 1.  With balance 10000, no     *)
(* capital in use, entry 1000 and a stop of 5 points: units 4, notional    *)
(* 4000, leverage 1, max_leverage 200.                                     *)
(***************************************************************************)
C13_PointsLeverageRounding ==
    \A b \in GridBalances, e \in GridEntries, v \in GridStops :
        LET cap == calculate_unutilized_capital(b, clock)
        IN  (~cap.raised /\ ~InvalidInput(cap.value, e, v)) =>
                \E r \in {calculate_position_sizing(b, e, "SL Points", v, clock)} :
                \E required \in {Div(r.notional, r.unutilized_capital)} :
                    /\ r.unutilized_capital = cap.value
                    /\ r.leverage = RatMax(One, Rat(Ceil(Mul(required, Whole(2))), 2))
                    /\ r.leverage[2] \in {1, 2}
                    /\ Leq(One, r.leverage)
                    /\ Leq(required, r.leverage)
                    /\ Leq(One, required) => Less(r.leverage, Add(required, <<1, 2>>))
                    /\ (cap.value = Whole(10000) /\ e = Whole(1000) /\ v = Whole(5)) =>
                           /\ r.units = Whole(4)
                           /\ r.notional = Whole(4000)
                           /\ required = <<2, 5>>
                           /\ r.leverage = One
                           /\ r.max_leverage = Whole(200)

\* with capital in use today, a required leverage above 1 is rounded up to
\* the next half, and another below 1 is raised to 1
C13_Witness ==
    /\ today_trades(clock) # <<>>
    /\ ~DivisionRaises(clock)
    /\ \E r \in {calculate_position_sizing(Whole(DEFAULT_BALANCE), Whole(3000), "SL Points",
                                            Whole(5), clock)} :
          /\ r.info = "RISK"
          /\ Less(r.unutilized_capital, Whole(DEFAULT_BALANCE))
          /\ Div(r.notional, r.unutilized_capital) = <<6, 5>>
          /\ r.leverage = <<3, 2>>
    /\ \E r \in {calculate_position_sizing(Whole(DEFAULT_BALANCE), Whole(1000), "SL Points",
                                            Whole(5), clock)} :
          /\ Div(r.notional, r.unutilized_capital) = <<2, 5>>
          /\ r.leverage = One

(***************************************************************************)
(* C14: limits and capital belong to the current date.  With no trade      *)
(* dated today the unutilized capital is the whole balance, whatever       *)
(* earlier dates hold; a call is stopped by a limit only for trades dated  *)
(* today, and with none dated today a proposal at the suggested size is    *)
(* recorded; a recorded trade carries the date the call read first, whose  *)
(* counters are the ones that were checked and the only ones raised.       *)
(***************************************************************************)
DateScopedCapital ==
    \A b \in GridBalances :
        TradesOn(clock) = 0 =>
            calculate_unutilized_capital(b, clock) = [raised |-> FALSE, value |-> b]

C14_DateScoping ==
    /\ []DateScopedCapital
    /\ [][ /\ (/\ ExecuteStep
               /\ TradesOn(clock) < DAILY_MAX_TRADES
               /\ TradesOnFor(clock, quote.symbol) < DAILY_MAX_PER_SYMBOL) =>
                  last'.g.result \notin {"DAILY_LIMIT", "SYMBOL_LIMIT"}
           /\ (/\ ExecuteStep
               /\ TradesOn(clock) = 0
               /\ last'.g.sizing = "RISK"
               /\ last'.g.units = last'.g.suggested_units_check
               /\ last'.g.leverage = last'.g.suggested_lev_check) =>
                  /\ last'.g.result = "LOGGED"
                  /\ last'.g.unutilized_capital = quote.balance
           /\ (ExecuteStep /\ trades' # trades) =>
                  /\ trades'[Len(trades')].date = clock
                  /\ last'.date = clock
                  /\ TradesOn(clock) < DAILY_MAX_TRADES
                  /\ TradesOnFor(clock, quote.symbol) < DAILY_MAX_PER_SYMBOL
                  /\ \A d \in Dates :
                        /\ d # clock => StatsGet(d)' = StatsGet(d)
                        /\ d = clock => StatsGet(d)'.total = StatsGet(d).total + 1 ]_vars

\* the date before has its four trades, two of them of the symbol that is
\* accepted again today against the whole balance
C14_Witness ==
    /\ clock = 1
    /\ last.op = "execute"
    /\ last.date = 1
    /\ last.g.result = "LOGGED"
    /\ last.g.unutilized_capital = Whole(DEFAULT_BALANCE)
    /\ TradesOn(0) = DAILY_MAX_TRADES
    /\ TradesOn(1) = 1
    /\ LET t == trades[Len(trades)]
       IN  /\ t.date = 1
           /\ TradesOnFor(0, t.symbol) = DAILY_MAX_PER_SYMBOL
    /\ StatsGet(1).total = 1

(***************************************************************************)
(* C15: with one balance for every call, the capital committed by the      *)
(* trades of a date (the sum of notional / leverage, the notional itself   *)
(* for a leverage of 0 as at line 607) is never more than n * 1e-9 above   *)
(* the balance, n the number of trades of the date; and the margin of a    *)
(* recorded trade is at most 1e-9 above the unutilized capital the call    *)
(* computed.                                                               *)
(***************************************************************************)
RECURSIVE CommittedCapital(_)
CommittedCapital(ts) ==
    IF ts = <<>> THEN Zero
    ELSE Add(margin_required(Head(ts).notional, Head(ts).leverage),
             CommittedCapital(Tail(ts)))

\* x > y + n * 1e-9
ExceedsByEpsilons(x, y, n) ==
    LET e == Sub(x, y)
    IN  /\ e[1] > 0
        /\ \/ e[2] < EpsilonDen \div (n + 1)
           \/ e[1] * EpsilonDen > n * e[2]

C15_CommittedWithinBalance ==
    /\ \A d \in Dates, b \in Balances :
          ~ExceedsByEpsilons(CommittedCapital(today_trades(d)), b, TradesOn(d))
    /\ (last.op = "execute" /\ last.g.result = "LOGGED") =>
          ~ExceedsByEpsilon(last.g.margin, last.g.unutilized_capital)

====
